---- MODULE Spec2Model ----
(***************************************************************************)
(* The transactional session wrapper of full_exercise_chalenging           *)
(* (session.py) around units of work on the car_owners table               *)
(* (main_car_owners.py), over the sqlite3 storage backend.                 *)
(*                                                                         *)
(* An invocation is one call of session.inner.  Invocations are numbered   *)
(* in the order they are called; several may be in flight at once (one per *)
(* thread), and a unit of work may itself call a wrapped function (a       *)
(* nested invocation, during which the caller's unit of work is            *)
(* suspended).  A unit of work is any sequence of SELECT statements, write *)
(* statements and nested calls that ends by returning or raising.  The     *)
(* model covers invocations whose sqlite3.connect succeeds.                *)
(*                                                                         *)
(* Further specifications, each over variables of its own, follow the      *)
(* session wrapper: CarOwnerSpec (the wrapped car-owner functions called   *)
(* one after the other), TodoSpec (the same requests sent to the JSON-file,*)
(* raw-SQL and ORM todo servers), ImportSpec (CSV upload to the raw-SQL    *)
(* and ORM servers), JsonSpec (the JSON-file server with ids given by the  *)
(* client) and RaceSpec (create_todo of the JSON-file server in threads).  *)
(***************************************************************************)
EXTENDS Integers, Sequences, FiniteSets, TLC

\* ------------------------------------------------------------------ bounds
MaxInv == 2      \* invocations of wrapped functions in one behaviour
MaxWrites == 2   \* write statements one unit of work executes
MaxDepth == 2    \* depth of nesting of wrapped calls

Invs == 1..MaxInv

\* ------------------------------------------------------------- the storage
\* The state of the car_owners table: the ids of its rows, the AUTOINCREMENT
\* counter kept in sqlite_sequence, and (for the statement of the claims) the
\* write statements <<invocation, number>> the state reflects.
EmptyDb == [rows |-> {}, seq |-> 0, applied |-> {}]

\* INSERT INTO car_owners ...: the new row gets the next AUTOINCREMENT id.
InsertRow(s, tag) ==
    [rows |-> s.rows \cup {s.seq + 1}, seq |-> s.seq + 1,
     applied |-> s.applied \cup {tag}]

\* A connection as sqlite3.connect returns it.
NewConnection(i) ==
    [open |-> TRUE, in_transaction |-> FALSE, view |-> EmptyDb,
     opener |-> i, users |-> {}]

\* ------------------------------------------------------------- the failures
\* Failures a unit of work raises by itself; KeyboardInterrupt is not an
\* Exception, so `except Exception` does not catch it.  The sqlite3 calls
\* raise "StorageFailure" (a statement), "CommitFailure" and
\* "RollbackFailure", all of them Exceptions.
FuncErrors == {"LogicFailure", "KeyboardInterrupt"}
IsException(e) == e # "KeyboardInterrupt"

VARIABLES
    db,         \* the committed state of the storage file
    writer,     \* the connection holding the file's write lock, 0 if none
    conns,      \* the connections opened so far, in the order of connect
    pc,         \* per invocation: where session.inner is
    parent,     \* per invocation: the invocation whose unit of work called it
    cnx,        \* per invocation: the local variable cnx (index in conns)
    nWrites,    \* per invocation: write statements executed and not undone
    err,        \* per invocation: the failure propagating, "none" if none
    delivered,  \* per invocation: what its caller received
    events,     \* per invocation: the calls made on its connection, in order
    obs         \* per invocation: what the last SELECT of its unit of work
                \* fetched

VARIABLES
    car_owners,  \* the car_owners table as committed, with its AUTOINCREMENT
                 \* counter
    journal,     \* the last two wrapped car-owner calls made one after the
                 \* other, and what each gave its caller
    todos_file,  \* server_json/todos.json
    todos_db,    \* the todos table of server_sqlite, with its AUTOINCREMENT
                 \* counter
    todos_orm,   \* the todo table of server_sqlmodel
    now,         \* the clock datetime.now() reads
    reply,       \* per todo server: the request it handled last and its
                 \* response
    uploads,     \* the CSV files uploaded so far
    reqs         \* the create_todo requests the JSON server handles in
                 \* threads: where each is, and its local todos

sessionVars == <<db, writer, conns, pc, parent, cnx, nWrites, err, delivered,
                 events, obs>>
carVars == <<car_owners, journal>>
todoVars == <<todos_file, todos_db, todos_orm, now, reply, uploads>>
raceVars == <<reqs>>

vars == <<sessionVars, carVars, todoVars, raceVars>>

\* obs of an invocation that has fetched nothing (or whose unit of work has
\* ended: the fetched rows are a local of the unit of work).
NoObs == [seen |-> FALSE, state |-> EmptyDb]

\* The stores of the other programs before their first request: car_owners
\* and the two todos tables as init_db creates them, todos.json not yet
\* written, no request handled.
NoOwners == [rows |-> {}, seq |-> 0]
NoFile == [valid |-> FALSE, todos |-> <<>>]
NoTodos == [rows |-> {}, seq |-> 0]
Variants == {"json", "sqlite", "orm"}
NoReply ==
    [op |-> "none", id |-> 0, given |-> {}, status |-> 0, detail |-> "",
     todos |-> <<>>, count |-> 0, at |-> 0]
MaxReqs == 3     \* create_todo requests in flight at once on the JSON server
Reqs == 1..MaxReqs
NoReq == [pc |-> "idle", todos |-> <<>>, id |-> 0]

Init ==
    /\ car_owners = NoOwners
    /\ journal = <<>>
    /\ todos_file = NoFile
    /\ todos_db = NoTodos
    /\ todos_orm = {}
    /\ now = 0
    /\ reply = [v \in Variants |-> NoReply]
    /\ uploads = 0
    /\ reqs = [r \in Reqs |-> NoReq]
    /\ db = EmptyDb
    /\ writer = 0
    /\ conns = <<>>
    /\ pc = [i \in Invs |-> "idle"]
    /\ parent = [i \in Invs |-> 0]
    /\ cnx = [i \in Invs |-> 0]
    /\ nWrites = [i \in Invs |-> 0]
    /\ err = [i \in Invs |-> "none"]
    /\ delivered = [i \in Invs |-> "none"]
    /\ events = [i \in Invs |-> <<>>]
    /\ obs = [i \in Invs |-> NoObs]

\* ----------------------------------------------------------------- helpers
Called == {i \in Invs : pc[i] # "idle"}
NextInv == Cardinality(Called) + 1

\* The unit of work of i is running: it is not suspended in a nested call.
Running(i) ==
    /\ pc[i] = "func"
    /\ \A k \in Invs : parent[k] = i => pc[k] = "done"

RECURSIVE Depth(_)
Depth(i) == IF parent[i] = 0 THEN 1 ELSE 1 + Depth(parent[i])

\* Faulty variant: a nested call reuses the connection of the calling
\* invocation.
ConnectNested(i, p) == IF p # 0 THEN cnx[p] ELSE Len(conns) + 1

\* Faulty variant: one module-level connection serves every call.
ConnectShared(i, p) == 1

\* line 7: each call of inner, nested in the unit of work of p or not,
\* connects anew.
Connect(i, p) == Len(conns) + 1

\* Faulty variant: uncommitted changes of the lock holder are read by every
\* connection.
VisibleDirty(c) == IF writer # 0 THEN conns[writer].view ELSE db

\* What a statement executed on connection c reads: its own uncommitted
\* changes when it holds the write lock, the committed state otherwise.
Visible(c) == IF writer = c THEN conns[c].view ELSE db

\* Faulty variant: the result is returned without a commit.
AfterFuncNoCommit(c) == "finally"

\* Faulty variant: commit is called whether or not a transaction is open.
AfterFuncAlways(c) == "commit"

\* line 12: commit only when the connection has a transaction open.
AfterFunc(c) == IF conns[c].in_transaction THEN "commit" ELSE "finally"

\* Faulty variant: the except clause catches every BaseException.
AfterRaiseAll(e) == "except"

\* line 15: the except clause catches Exception only.
AfterRaise(e) == IF IsException(e) THEN "except" ELSE "finally"

\* Invocation i makes a call on connection c.
Use(c, i) == [conns EXCEPT ![c].users = @ \cup {i}]

\* The connection after its transaction has ended (or at close).
Ended(c, i, stillOpen) ==
    [conns EXCEPT ![c].open = @ /\ stillOpen, ![c].in_transaction = FALSE,
                  ![c].view = EmptyDb, ![c].users = @ \cup {i}]

\* The write lock once connection c has let go of it.
Release(c) == IF writer = c THEN 0 ELSE writer

\* ----------------------------------------------------------------- actions
\* lines 6-11: inner is called by an outside caller (p = 0) or from the
\* running unit of work of p; it connects and starts the unit of work.
Enter(i, p) ==
    /\ pc[i] = "idle"
    /\ i = NextInv
    /\ LET c == Connect(i, p) IN
       /\ conns' = IF c > Len(conns) THEN Append(conns, NewConnection(i))
                   ELSE Use(c, i)
       /\ cnx' = [cnx EXCEPT ![i] = c]
    /\ pc' = [pc EXCEPT ![i] = "func"]
    /\ parent' = [parent EXCEPT ![i] = p]
    /\ events' = [events EXCEPT ![i] = <<"open", "run">>]
    /\ UNCHANGED <<db, writer, nWrites, err, delivered, obs>>
    /\ UNCHANGED <<carVars, todoVars, raceVars>>

Call(i) == Enter(i, 0)

NestedCall(p, i) ==
    /\ Running(p)
    /\ Depth(p) < MaxDepth
    /\ Enter(i, p)

\* A SELECT (read_car_owners line 92, get_car_owner_by_id line 98): opens no
\* transaction and fetches what the connection sees.
Select(i) ==
    /\ Running(i)
    /\ conns[cnx[i]].open
    /\ obs' = [obs EXCEPT ![i] = [seen |-> TRUE, state |-> Visible(cnx[i])]]
    /\ conns' = Use(cnx[i], i)
    /\ UNCHANGED <<db, writer, pc, parent, cnx, nWrites, err, delivered,
                   events>>
    /\ UNCHANGED <<carVars, todoVars, raceVars>>

\* Where an executed write statement leaves its changes: in the connection's
\* own view, under the file's write lock, until commit.
Written(c, i, s) ==
    /\ conns' = [conns EXCEPT ![c].in_transaction = TRUE, ![c].view = s,
                              ![c].users = @ \cup {i}]
    /\ writer' = c
    /\ db' = db

\* A write statement that succeeds (the INSERT of create_car_owner_in_db,
\* line 104): sqlite3 begins a transaction first if none is open, and the
\* statement takes the write lock, which no other connection may hold.
Insert(i) ==
    /\ Running(i)
    /\ nWrites[i] < MaxWrites
    /\ conns[cnx[i]].open
    /\ writer \in {0, cnx[i]}
    /\ Written(cnx[i], i, InsertRow(Visible(cnx[i]), <<i, nWrites[i] + 1>>))
    /\ nWrites' = [nWrites EXCEPT ![i] = @ + 1]
    /\ UNCHANGED <<pc, parent, cnx, err, delivered, events, obs>>
    /\ UNCHANGED <<carVars, todoVars, raceVars>>

\* A failure e is raised inside invocation i; the fetched rows, locals of the
\* unit of work, are gone.
Raise(i, e) ==
    /\ err' = [err EXCEPT ![i] = e]
    /\ obs' = [obs EXCEPT ![i] = NoObs]

\* A write statement that fails: the transaction has been begun; the
\* statement either violates a constraint (email UNIQUE, NOT NULL) holding
\* the write lock, or finds the file locked by another connection.
DmlFails(i) ==
    /\ Running(i)
    /\ conns[cnx[i]].open
    /\ LET c == cnx[i]
           locked == writer \notin {0, c}
       IN /\ conns' = [conns EXCEPT ![c].in_transaction = TRUE,
                                    ![c].view = Visible(c),
                                    ![c].users = @ \cup {i}]
          /\ writer' = IF locked THEN writer ELSE c
    /\ Raise(i, "StorageFailure")
    /\ pc' = [pc EXCEPT ![i] = AfterRaise("StorageFailure")]
    /\ UNCHANGED <<db, parent, cnx, nWrites, delivered, events>>
    /\ UNCHANGED <<carVars, todoVars, raceVars>>

\* The unit of work raises a failure of its own.
FuncRaise(i, e) ==
    /\ Running(i)
    /\ Raise(i, e)
    /\ pc' = [pc EXCEPT ![i] = AfterRaise(e)]
    /\ UNCHANGED <<db, writer, conns, parent, cnx, nWrites, delivered,
                   events>>
    /\ UNCHANGED <<carVars, todoVars, raceVars>>

\* Faulty variant: the handle is closed as soon as the unit of work returns,
\* before the commit.
FuncReturnCloses(i) ==
    /\ Running(i)
    /\ conns' = Ended(cnx[i], i, FALSE)
    /\ pc' = [pc EXCEPT ![i] = AfterFunc(cnx[i])]
    /\ obs' = [obs EXCEPT ![i] = NoObs]
    /\ UNCHANGED <<db, writer, parent, cnx, nWrites, err, delivered, events>>
    /\ UNCHANGED <<carVars, todoVars, raceVars>>

\* lines 11-12: the unit of work returns its result; its locals are gone.
FuncReturn(i) ==
    /\ Running(i)
    /\ pc' = [pc EXCEPT ![i] = AfterFunc(cnx[i])]
    /\ obs' = [obs EXCEPT ![i] = NoObs]
    /\ UNCHANGED <<db, writer, conns, parent, cnx, nWrites, err, delivered,
                   events>>
    /\ UNCHANGED <<carVars, todoVars, raceVars>>

\* line 13: cnx.commit() succeeds: the connection's changes become the
\* committed state at once.
Commit(i) ==
    /\ pc[i] = "commit"
    /\ db' = Visible(cnx[i])
    /\ writer' = Release(cnx[i])
    /\ conns' = Ended(cnx[i], i, TRUE)
    /\ events' = [events EXCEPT ![i] = Append(@, "commit")]
    /\ pc' = [pc EXCEPT ![i] = "finally"]
    /\ UNCHANGED <<parent, cnx, nWrites, err, delivered, obs>>
    /\ UNCHANGED <<carVars, todoVars, raceVars>>

\* line 13: cnx.commit() raises (disk full, I/O error, file busy); the
\* transaction stays open and the failure goes to the except clause.
CommitFails(i) ==
    /\ pc[i] = "commit"
    /\ conns' = Use(cnx[i], i)
    /\ events' = [events EXCEPT ![i] = Append(@, "commit")]
    /\ Raise(i, "CommitFailure")
    /\ pc' = [pc EXCEPT ![i] = AfterRaise("CommitFailure")]
    /\ UNCHANGED <<db, writer, parent, cnx, nWrites, delivered>>
    /\ UNCHANGED <<carVars, todoVars, raceVars>>

\* Faulty variant: the except clause commits instead of rolling back.
RollbackCommits(i) ==
    /\ pc[i] = "except"
    /\ db' = Visible(cnx[i])
    /\ writer' = Release(cnx[i])
    /\ conns' = Ended(cnx[i], i, TRUE)
    /\ events' = [events EXCEPT ![i] = Append(@, "rollback")]
    /\ pc' = [pc EXCEPT ![i] = "finally"]
    /\ UNCHANGED <<parent, cnx, nWrites, err, delivered, obs>>
    /\ UNCHANGED <<carVars, todoVars, raceVars>>

\* lines 16-18: cnx.rollback() succeeds, the failure is printed and re-raised.
Rollback(i) ==
    /\ pc[i] = "except"
    /\ writer' = Release(cnx[i])
    /\ conns' = Ended(cnx[i], i, TRUE)
    /\ events' = [events EXCEPT ![i] = Append(@, "rollback")]
    /\ pc' = [pc EXCEPT ![i] = "finally"]
    /\ UNCHANGED <<db, parent, cnx, nWrites, err, delivered, obs>>
    /\ UNCHANGED <<carVars, todoVars, raceVars>>

\* line 16: cnx.rollback() itself raises (it executes ROLLBACK only when a
\* transaction is open); its failure leaves the except clause in place of the
\* one being handled.
RollbackFails(i) ==
    /\ pc[i] = "except"
    /\ conns[cnx[i]].in_transaction
    /\ conns' = Use(cnx[i], i)
    /\ events' = [events EXCEPT ![i] = Append(@, "rollback")]
    /\ Raise(i, "RollbackFailure")
    /\ pc' = [pc EXCEPT ![i] = "finally"]
    /\ UNCHANGED <<db, writer, parent, cnx, nWrites, delivered>>
    /\ UNCHANGED <<carVars, todoVars, raceVars>>

\* What lines 19-21 and the return to the caller leave of invocation i: the
\* caller has the result or the failure; of an invocation that raises, no
\* write statement stands.
Leave(i) ==
    /\ delivered' = [delivered EXCEPT ![i] =
                       IF err[i] = "none" THEN "return" ELSE err[i]]
    /\ nWrites' = [nWrites EXCEPT ![i] = IF err[i] = "none" THEN @ ELSE 0]
    /\ err' = [err EXCEPT ![i] = "none"]
    /\ pc' = [pc EXCEPT ![i] = "done"]

\* Faulty variant: the handle is closed on the normal path only (no finally).
CloseLeaky(i) ==
    /\ pc[i] = "finally"
    /\ writer' = Release(cnx[i])
    /\ conns' = Ended(cnx[i], i, err[i] # "none")
    /\ events' = [events EXCEPT ![i] =
                    @ \o (IF err[i] = "none" THEN <<"close", "return">>
                                             ELSE <<"raise">>)]
    /\ Leave(i)
    /\ UNCHANGED <<db, parent, cnx, obs>>
    /\ UNCHANGED <<carVars, todoVars, raceVars>>

\* lines 19-21 and the return to the caller: the connection is closed, which
\* discards a transaction still open; then the caller receives the result or
\* the failure.
Close(i) ==
    /\ pc[i] = "finally"
    /\ writer' = Release(cnx[i])
    /\ conns' = Ended(cnx[i], i, FALSE)
    /\ events' = [events EXCEPT ![i] =
                    @ \o <<"close", IF err[i] = "none" THEN "return" ELSE "raise">>]
    /\ Leave(i)
    /\ UNCHANGED <<db, parent, cnx, obs>>
    /\ UNCHANGED <<carVars, todoVars, raceVars>>

Next ==
    \/ \E i \in Invs : Call(i)
    \/ \E p, i \in Invs : NestedCall(p, i)
    \/ \E i \in Invs : Select(i)
    \/ \E i \in Invs : Insert(i)
    \/ \E i \in Invs : DmlFails(i)
    \/ \E i \in Invs : FuncReturn(i)
    \/ \E i \in Invs, e \in FuncErrors : FuncRaise(i, e)
    \/ \E i \in Invs : Commit(i)
    \/ \E i \in Invs : CommitFails(i)
    \/ \E i \in Invs : Rollback(i)
    \/ \E i \in Invs : RollbackFails(i)
    \/ \E i \in Invs : Close(i)

Spec == Init /\ [][Next]_vars

\* ------------------------------------------------------ vocabulary of claims
Returned(i) == delivered[i] = "return"
Failed(i) == delivered[i] \notin {"none", "return"}
InFlight(i) == pc[i] \notin {"idle", "done"}

\* The write statements of invocation i that stand, and all it could execute.
Ops(i) == {<<i, k>> : k \in 1..nWrites[i]}
Tags(i) == {<<i, k>> : k \in 1..MaxWrites}

\* How often event e occurs in the events of invocation i.
Count(i, e) == Cardinality({n \in 1..Len(events[i]) : events[i][n] = e})

OpenHandles == {c \in 1..Len(conns) : conns[c].open}

\* What a SELECT of invocation j fetches when executed now.
FetchedNow(j) == Visible(cnx[j])

\* C1: once a wrapped invocation has returned normally, every write statement
\* it executed is part of the committed state, and of what any SELECT another
\* invocation executes from then on fetches.
C1_ReturnedIsCommitted ==
    \A i \in Invs : Returned(i) =>
        /\ Ops(i) \subseteq db.applied
        /\ \A j \in Invs : Running(j) => Ops(i) \subseteq FetchedNow(j).applied

\* An invocation has returned after writing, and another, independent one
\* has fetched a state that holds its writes.
C1_Witness ==
    \E i, j \in Invs :
        /\ i # j /\ Returned(i) /\ nWrites[i] > 0
        /\ parent[j] = 0 /\ parent[i] = 0
        /\ obs[j].seen /\ Ops(i) \subseteq obs[j].state.applied

\* C2: once a wrapped invocation has raised, none of the write statements it
\* executed is part of the committed state, nor of what any SELECT another
\* invocation executes from then on fetches.
C2_RaisedIsNotCommitted ==
    \A i \in Invs : Failed(i) =>
        /\ Tags(i) \cap db.applied = {}
        /\ \A j \in Invs : Running(j) => Tags(i) \cap FetchedNow(j).applied = {}

\* An invocation has raised after it executed write statements (its unit of
\* work returned; the commit, called only with a transaction open, failed),
\* and another, independent one has fetched a state.
C2_Witness ==
    \E i, j \in Invs :
        /\ i # j /\ Failed(i) /\ Count(i, "commit") = 1
        /\ parent[j] = 0 /\ parent[i] = 0
        /\ obs[j].seen /\ Tags(i) \cap obs[j].state.applied = {}

\* C3: an invocation that has ended, by return or by raise, has opened one
\* connection and closed one; the connections open at any time are those of
\* the invocations in flight, so none is open when none is in flight.
C3_OneOpenOneClose ==
    /\ \A i \in Invs : pc[i] = "done" =>
          /\ Count(i, "open") = 1 /\ Count(i, "close") = 1
          /\ ~conns[cnx[i]].open
    /\ Len(conns) = Cardinality(Called)
    /\ Cardinality(OpenHandles) = Cardinality({i \in Invs : InFlight(i)})

\* All invocations have ended, one by return and one by raise, and no handle
\* is open.
C3_Witness ==
    /\ \A i \in Invs : pc[i] = "done"
    /\ \E i, j \in Invs : Returned(i) /\ Failed(j)
    /\ OpenHandles = {}

\* C4 as stated: an invocation that has ended has made exactly one call of
\* commit or rollback.
C4_ExactlyOneCommitOrRollback ==
    \A i \in Invs : pc[i] = "done" =>
        Count(i, "commit") + Count(i, "rollback") = 1

\* The pair <<commit calls, rollback calls>> of an ended invocation.
Calls(i) == <<Count(i, "commit"), Count(i, "rollback")>>

\* C4 amended: an ended invocation has called commit at most once and
\* rollback at most once: commit alone when it returned after a write
\* statement, neither when it returned without one, rollback alone when an
\* Exception was raised in the unit of work, commit and then rollback when
\* the commit failed (rollback in each case also when the rollback itself
\* failed), neither when the unit of work raised a failure that is not an
\* Exception.
C4_CommitRollbackCalls ==
    \A i \in Invs : pc[i] = "done" =>
        /\ Count(i, "commit") <= 1 /\ Count(i, "rollback") <= 1
        /\ Returned(i) => Calls(i) = <<IF nWrites[i] > 0 THEN 1 ELSE 0, 0>>
        /\ delivered[i] = "KeyboardInterrupt" => Calls(i) = <<0, 0>>
        /\ delivered[i] = "CommitFailure" => Calls(i) = <<1, 1>>
        /\ delivered[i] \in {"LogicFailure", "StorageFailure"} =>
              Calls(i) = <<0, 1>>
        /\ delivered[i] = "RollbackFailure" => Count(i, "rollback") = 1

\* One invocation ended with no call of commit or rollback, another after a
\* failed commit followed by a rollback.
C4_Witness ==
    \E i, j \in Invs :
        /\ pc[i] = "done" /\ Calls(i) = <<0, 0>>
        /\ pc[j] = "done" /\ Calls(j) = <<1, 1>>

\* C5: an invocation that returned normally without having executed a write
\* statement has not called commit, and its handle was closed before it
\* returned.
C5_ReadOnlyNoCommit ==
    \A i \in Invs : (Returned(i) /\ nWrites[i] = 0) =>
        /\ Count(i, "commit") = 0
        /\ ~conns[cnx[i]].open
        /\ events[i] = <<"open", "run", "close", "return">>

\* An invocation that executed no write statement has returned, with its
\* handle closed, while rows committed by another invocation are in the
\* storage.
C5_Witness ==
    \E i \in Invs :
        /\ Returned(i) /\ nWrites[i] = 0 /\ ~conns[cnx[i]].open
        /\ db.rows # {}

\* C6 as stated: a failure raised inside an invocation stays the failure
\* that propagates, unchanged, until the caller receives it: no step replaces
\* it by another failure or by a normal return.
C6_SameFailure ==
    [][\A i \in Invs : err[i] # "none" =>
          \/ err'[i] = err[i]
          \/ pc'[i] = "done" /\ delivered'[i] = err[i]]_vars

\* The rank of an event in the lifecycle of an invocation.
Rank(e) ==
    CASE e = "open" -> 1 [] e = "run" -> 2 [] e = "commit" -> 3
      [] e = "rollback" -> 4 [] e = "close" -> 5 [] OTHER -> 6

\* C7: the events of an invocation come in the order open, run, commit,
\* rollback, close, return or raise, each at most once; the unit of work,
\* the commit and the rollback find the handle open; an invocation that has
\* ended has run its unit of work once and closed the handle before control
\* went back to the caller.
C7_Lifecycle ==
    \A i \in Invs :
        /\ \A a, b \in 1..Len(events[i]) :
              a < b => Rank(events[i][a]) < Rank(events[i][b])
        /\ pc[i] \in {"func", "commit", "except"} => conns[cnx[i]].open
        /\ pc[i] = "done" =>
              /\ Count(i, "open") = 1 /\ Count(i, "run") = 1
              /\ Count(i, "close") = 1
              /\ Count(i, "return") + Count(i, "raise") = 1
              /\ ~conns[cnx[i]].open

\* An invocation has gone through all six stages: its commit failed, it
\* rolled back, closed and raised.
C7_Witness ==
    \E i \in Invs :
        events[i] = <<"open", "run", "commit", "rollback", "close", "raise">>

\* C8: what an invocation has fetched, or fetches now, and the committed
\* state itself, hold either none of the write statements of another
\* invocation or all of them.
C8_AllOrNothing ==
    \A i \in Invs :
        /\ db.applied \cap Tags(i) \in {{}, Ops(i)}
        /\ \A j \in Invs \ {i} :
              /\ obs[j].state.applied \cap Tags(i) \in {{}, Ops(i)}
              /\ Running(j) => FetchedNow(j).applied \cap Tags(i) \in {{}, Ops(i)}

\* An invocation holds two uncommitted writes while another, independent one
\* has fetched the storage's state.
C8_Witness ==
    \E i, j \in Invs :
        /\ i # j /\ parent[i] = 0 /\ parent[j] = 0
        /\ InFlight(i) /\ nWrites[i] = 2 /\ writer = cnx[i]
        /\ obs[j].seen /\ obs[j].state.applied \cap Tags(i) = {}

\* C9: a nested invocation has a connection of its own, distinct from that
\* of the invocation that called it; once it has returned its writes are
\* committed, and they stay so when a failure propagates in the calling
\* invocation and after that one has raised, whose own writes are not
\* committed.
C9_NestedIndependent ==
    \A i \in Invs : parent[i] # 0 =>
        /\ cnx[i] # cnx[parent[i]]
        /\ conns[cnx[i]].opener = i
        /\ Returned(i) => Ops(i) \subseteq db.applied
        /\ (err[parent[i]] # "none" \/ Failed(parent[i])) =>
              Tags(parent[i]) \cap db.applied = {}

\* A nested invocation returned after a write; then the calling invocation
\* wrote, raised and has been rolled back.
C9_Witness ==
    \E i \in Invs :
        /\ parent[i] # 0 /\ Returned(i) /\ nWrites[i] > 0
        /\ Ops(i) \subseteq db.applied
        /\ pc[parent[i]] = "finally" /\ err[parent[i]] = "LogicFailure"
        /\ Count(parent[i], "rollback") = 1 /\ nWrites[parent[i]] > 0

\* C10: every connection is used by the invocation that opened it and by no
\* other, and no two invocations hold the same connection.
C10_OwnConnection ==
    /\ \A c \in 1..Len(conns) : conns[c].users \subseteq {conns[c].opener}
    /\ \A i \in Called : conns[cnx[i]].opener = i
    /\ \A i, j \in Called : i # j => cnx[i] # cnx[j]

\* Two independent invocations are in flight at once, each having executed
\* statements on its connection, one of them holding uncommitted writes.
C10_Witness ==
    \E i, j \in Invs :
        /\ i # j /\ parent[i] = 0 /\ parent[j] = 0
        /\ Running(i) /\ Running(j)
        /\ conns[cnx[i]].users = {i} /\ conns[cnx[j]].users = {j}
        /\ writer = cnx[i]

\* ==================================================================
\* The wrapped car-owner functions of main_car_owners.py, called one after
\* the other by one caller, each call run to its end by session.inner.
\* ==================================================================
MaxOwners == 3   \* rows the calls insert in car_owners in one behaviour

Names == {"n1", "n2"}
Emails == {"e1", "e2"}
None == "None"
OwnerRange == 1..MaxOwners
CarOwnerUpdates == [name : Names \cup {None}, email : Emails \cup {None}]

OwnerIds(s) == {r.id : r \in s.rows}

\* What a unit of work leaves when it ends: the table as its connection sees
\* it, whether a transaction is open, its result or the failure it raised,
\* and the cursor's lastrowid, rowcount and fetched rows.
Ran(view, in_transaction, result, lastrowid, rowcount, rows) ==
    [view |-> view, in_transaction |-> in_transaction, result |-> result,
     raised |-> "none", lastrowid |-> lastrowid, rowcount |-> rowcount,
     rows |-> rows]

\* A write statement that violates a constraint: the transaction has been
\* begun, nothing is changed, sqlite3.IntegrityError is raised.
Violates(s) ==
    [view |-> s, in_transaction |-> TRUE, result |-> None,
     raised |-> "IntegrityError", lastrowid |-> 0, rowcount |-> 0,
     rows |-> {}]

\* Faulty variant: the wrapper closes the connection without a commit.
sessionNoCommit(s, out) ==
    [store |-> s, result |-> out.result, raised |-> out.raised,
     dml |-> out.in_transaction, lastrowid |-> out.lastrowid,
     rowcount |-> out.rowcount, rows |-> out.rows]

\* session.inner around a unit of work that ran on the committed table s and
\* left out, when commit, rollback and close succeed: the changes are
\* committed if the unit of work returned with a transaction open, rolled
\* back if it raised; the caller gets the result or the failure.
session(s, out) ==
    [store |-> IF out.raised = "none" /\ out.in_transaction
               THEN out.view ELSE s,
     result |-> out.result, raised |-> out.raised,
     dml |-> out.in_transaction, lastrowid |-> out.lastrowid,
     rowcount |-> out.rowcount, rows |-> out.rows]

\* id INTEGER PRIMARY KEY AUTOINCREMENT: one more than the largest id the
\* table ever held.
NextOwnerId(s) == s.seq + 1

\* lines 90-94: SELECT * FROM car_owners.
read_car_owners(s) == Ran(s, FALSE, None, 0, 0, s.rows)

\* lines 102-105: the INSERT; email is UNIQUE.
create_car_owner_in_db(s, owner) ==
    IF \E r \in s.rows : r.email = owner.email
    THEN Violates(s)
    ELSE LET id == NextOwnerId(s) IN
         Ran([rows |-> s.rows \cup {[id |-> id, name |-> owner.name,
                                     email |-> owner.email]},
              seq |-> id],
             TRUE, "Success", id, 1, {})

\* The row r after UPDATE car_owners SET <the fields given> of upd.
Updated(r, upd) ==
    [id |-> r.id,
     name |-> IF upd.name # None THEN upd.name ELSE r.name,
     email |-> IF upd.email # None THEN upd.email ELSE r.email]

\* lines 107-137: no statement when no field is given; else the UPDATE of
\* the rows WHERE id = owner_id, whether or not there is one.
update_car_owner_in_db(s, owner_id, upd) ==
    IF upd.name = None /\ upd.email = None
    THEN Ran(s, FALSE, "nothing_to_update", 0, 0, {})
    ELSE IF /\ owner_id \in OwnerIds(s)
            /\ \E r \in s.rows : r.id # owner_id /\ r.email = upd.email
    THEN Violates(s)
    ELSE Ran([rows |-> {IF r.id = owner_id THEN Updated(r, upd) ELSE r :
                          r \in s.rows},
              seq |-> s.seq],
             TRUE, "updated", 0,
             IF owner_id \in OwnerIds(s) THEN 1 ELSE 0, {})

\* Faulty variant: the delete looks the row up first and raises when there
\* is none.
delete_car_owner_checked(s, owner_id) ==
    IF owner_id \in OwnerIds(s)
    THEN Ran([rows |-> {r \in s.rows : r.id # owner_id}, seq |-> s.seq],
             TRUE, "deleted", 0, 1, {})
    ELSE [view |-> s, in_transaction |-> FALSE, result |-> None,
          raised |-> "NotFound", lastrowid |-> 0, rowcount |-> 0,
          rows |-> {}]

\* lines 139-142: DELETE FROM car_owners WHERE id = owner_id, whether or not
\* there is such a row.
delete_car_owner_from_db(s, owner_id) ==
    Ran([rows |-> {r \in s.rows : r.id # owner_id}, seq |-> s.seq],
        TRUE, "deleted", 0,
        IF owner_id \in OwnerIds(s) THEN 1 ELSE 0, {})

\* The journal once the caller has made the call op (on owner id, 0 if none)
\* and received r.
Logged(op, id, r) ==
    (IF Len(journal) = 2 THEN Tail(journal) ELSE journal)
    \o <<[op |-> op, id |-> id, result |-> r.result, raised |-> r.raised,
          dml |-> r.dml, lastrowid |-> r.lastrowid, rowcount |-> r.rowcount,
          rows |-> r.rows]>>

ReadCarOwners ==
    LET r == session(car_owners, read_car_owners(car_owners)) IN
    /\ car_owners' = r.store
    /\ journal' = Logged("read", 0, r)
    /\ UNCHANGED <<sessionVars, todoVars, raceVars>>

CreateCarOwner(owner) ==
    LET r == session(car_owners, create_car_owner_in_db(car_owners, owner)) IN
    /\ car_owners.seq < MaxOwners
    /\ car_owners' = r.store
    /\ journal' = Logged("create", 0, r)
    /\ UNCHANGED <<sessionVars, todoVars, raceVars>>

UpdateCarOwner(id, upd) ==
    LET r == session(car_owners,
                     update_car_owner_in_db(car_owners, id, upd)) IN
    /\ car_owners' = r.store
    /\ journal' = Logged("update", id, r)
    /\ UNCHANGED <<sessionVars, todoVars, raceVars>>

DeleteCarOwner(id) ==
    LET r == session(car_owners, delete_car_owner_from_db(car_owners, id)) IN
    /\ car_owners' = r.store
    /\ journal' = Logged("delete", id, r)
    /\ UNCHANGED <<sessionVars, todoVars, raceVars>>

CarOwnerNext ==
    \/ \E owner \in [name : Names, email : Emails] : CreateCarOwner(owner)
    \/ ReadCarOwners
    \/ \E id \in OwnerRange : DeleteCarOwner(id)
    \/ \E id \in OwnerRange, upd \in CarOwnerUpdates : UpdateCarOwner(id, upd)

CarOwnerSpec == Init /\ [][CarOwnerNext]_vars

\* A call that inserted a record and returned.
Inserted(a) == a.op = "create" /\ a.raised = "none"

\* The ids a wrapped read_car_owners called now returns.
ReadNow == {r.id : r \in session(car_owners, read_car_owners(car_owners)).rows}

\* C11: when two wrapped calls that each insert one record have returned one
\* after the other, the identifiers generated for their records (lastrowid,
\* what such a unit of work returns) are distinct, and a read made then
\* returns both records.
C11_DistinctIdentifiers ==
    (Len(journal) = 2 /\ Inserted(journal[1]) /\ Inserted(journal[2])) =>
        /\ journal[1].lastrowid # journal[2].lastrowid
        /\ {journal[1].lastrowid, journal[2].lastrowid} \subseteq ReadNow

\* Two inserting calls have returned in succession, the second after an
\* earlier row was deleted.
C11_Witness ==
    /\ Len(journal) = 2 /\ Inserted(journal[1]) /\ Inserted(journal[2])
    /\ journal[2].lastrowid = 3
    /\ ReadNow = {2, 3}

\* C12: a wrapped delete_car_owner_from_db never raises and returns
\* 'deleted'; called with an identifier that is not in the table it leaves
\* the table and its counter as they were; the identifier is not in the table
\* afterwards, so a second delete of it changes nothing more.
C12_DeleteIdempotent ==
    [][LET a == journal'[Len(journal')] IN
       a.op = "delete" =>
          /\ a.raised = "none" /\ a.result = "deleted"
          /\ a.id \notin OwnerIds(car_owners')
          /\ a.id \notin OwnerIds(car_owners) => car_owners' = car_owners
      ]_vars

\* The same identifier has been deleted twice in succession: the first call
\* removed its row, the second found none, and other rows are left.
C12_Witness ==
    /\ Len(journal) = 2
    /\ journal[1].op = "delete" /\ journal[2].op = "delete"
    /\ journal[1].id = journal[2].id
    /\ journal[1].rowcount = 1 /\ journal[2].rowcount = 0
    /\ journal[2].raised = "none"
    /\ car_owners.rows # {}

\* C13 as stated, for update_car_owner_in_db: an update addressed to an
\* identifier that is not in the table executes no write statement and
\* reports not-found.
C13_UpdateChecksExistence ==
    [][LET a == journal'[Len(journal')] IN
       (a.op = "update" /\ a.id \notin OwnerIds(car_owners)) =>
          (~a.dml /\ a.result = "not_found")
      ]_vars

\* ==================================================================
\* The three todo servers: server_json/main_json.py (todos.json),
\* server_sqlite/main_sqlite.py (raw SQL) and
\* server_sqlmodel/main_sqlmodel.py (ORM).  A request is handled to its end
\* before the next one arrives.
\* ==================================================================
MaxClock == 3    \* requests that read the clock (create, update, import)
NoId == 0        \* stands for id = None in a request body

Titles == {"a", "b"}
Fields == {"title", "description", "completed"}
TodoRange == 1..MaxClock

\* Request bodies.  TodoItem / TodoCreate: a title, the rest defaulted.
\* TodoUpdate: `set` holds the fields the body gives (model_fields_set),
\* the others keep their defaults.  Bodies that give title or completed as
\* null are left out: the servers answer them with a validation or storage
\* error.
TodoBodies ==
    [title : Titles, description : {None}, completed : {FALSE}]
TodoUpdates ==
    {b \in [set : SUBSET Fields, title : {None, "b"},
            description : {None, "d"}, completed : BOOLEAN] :
        /\ (b.title = "b") <=> ("title" \in b.set)
        /\ (b.description = "d") <=> ("description" \in b.set)
        /\ b.completed <=> ("completed" \in b.set)}

\* Faulty variant: model_dump() without exclude_unset, every field dumped.
model_dump_all(b) == [f \in Fields |-> b[f]]

\* todo_update.model_dump(exclude_unset=True): the fields given, no others.
model_dump(b) == [f \in b.set |-> b[f]]

Max(S) == CHOOSE x \in S : \A y \in S : y <= x

\* The rows of a table in rowid order, as SELECT * returns them.
RECURSIVE ById(_)
ById(rows) ==
    IF rows = {} THEN <<>>
    ELSE LET last == CHOOSE r \in rows : \A q \in rows : q.id <= r.id
         IN Append(ById(rows \ {last}), last)

\* What a handler leaves: the store, and the response's status code, detail
\* and todos (the todo of a get, create or update; all of them for a list).
Response(store, status, detail, todos) ==
    [store |-> store, status |-> status, detail |-> detail, todos |-> todos,
     count |-> 0]
NotFound(store) == Response(store, 404, "Todo not found", <<>>)

\* ------------------------------------------------------- main_json.py
\* lines 35-43: no list when the file is missing or is not valid JSON.
read_todos(f) == IF f.valid THEN f.todos ELSE <<>>

\* lines 45-48, done in one piece.
write_todos(todos) == [valid |-> TRUE, todos |-> todos]

\* Faulty variant: the next id is the number of todos plus one.
get_next_id_by_count(todos) == Len(todos) + 1

\* lines 50-54.
get_next_id(todos) ==
    IF todos = <<>> THEN 1
    ELSE Max({todos[k].id : k \in DOMAIN todos}) + 1

\* The index of the first todo with this id, 0 if none.
IndexOf(todos, id) ==
    IF \E k \in DOMAIN todos : todos[k].id = id
    THEN CHOOSE k \in DOMAIN todos :
            /\ todos[k].id = id
            /\ \A j \in DOMAIN todos : todos[j].id = id => k <= j
    ELSE 0

\* lines 72-78.
Json_get_all_todos(f) == Response(f, 200, "", read_todos(f))

\* lines 80-87.
Json_get_todo(f, id) ==
    LET todos == read_todos(f)
        k == IndexOf(todos, id)
    IN IF k = 0 THEN NotFound(f) ELSE Response(f, 200, "", <<todos[k]>>)

\* lines 89-111.
Json_create_todo(f, todo, id, t) ==
    LET todos == read_todos(f)
        new_id == IF id = NoId THEN get_next_id(todos) ELSE id
        d == [id |-> new_id, title |-> todo.title,
              description |-> todo.description, completed |-> todo.completed,
              created_at |-> t, updated_at |-> t]
    IN IF IndexOf(todos, new_id) # 0
       THEN Response(f, 400, "Todo with this ID already exists", <<>>)
       ELSE Response(write_todos(Append(todos, d)), 201, "", <<d>>)

\* lines 126-131: the dumped fields are assigned, then updated_at.
Assigned(d, data, t) ==
    [f \in DOMAIN d |->
        IF f = "updated_at" THEN t
        ELSE IF f \in DOMAIN data THEN data[f] ELSE d[f]]

\* lines 113-137.
Json_update_todo(f, id, upd, t) ==
    LET todos == read_todos(f)
        k == IndexOf(todos, id)
    IN IF k = 0 THEN NotFound(f)
       ELSE LET d == Assigned(todos[k], model_dump(upd), t)
            IN Response(write_todos([todos EXCEPT ![k] = d]), 200, "", <<d>>)

\* lines 139-150.
Json_delete_todo(f, id) ==
    LET todos == read_todos(f)
        k == IndexOf(todos, id)
    IN IF k = 0 THEN NotFound(f)
       ELSE Response(write_todos([j \in 1..(Len(todos) - 1) |->
                                     IF j < k THEN todos[j] ELSE todos[j + 1]]),
                     204, "", <<>>)

\* lines 152-156.
Json_delete_all_todos(f) == Response(write_todos(<<>>), 204, "", <<>>)

\* ----------------------------------------------------- main_sqlite.py
\* completed is stored as INTEGER: 1 if ... else 0 on the way in, bool() on
\* the way out (row_to_dict, lines 74-84).
ToInteger(b) == IF b THEN 1 ELSE 0
row_to_dict(row) ==
    [id |-> row.id, title |-> row.title, description |-> row.description,
     completed |-> row.completed # 0, created_at |-> row.created_at,
     updated_at |-> row.updated_at]
Dicts(rows) == [k \in DOMAIN rows |-> row_to_dict(rows[k])]

\* lines 86-99.
Sql_read_todos(s) == Dicts(ById(s.rows))

\* lines 101-112: the empty list stands for None.
Sql_get_todo_by_id(s, id) == Dicts(ById({r \in s.rows : r.id = id}))

\* lines 269-281.
Sql_get_all_todos(s) == Response(s, 200, "", Sql_read_todos(s))
Sql_get_todo(s, id) ==
    IF Sql_get_todo_by_id(s, id) = <<>> THEN NotFound(s)
    ELSE Response(s, 200, "", Sql_get_todo_by_id(s, id))

\* lines 114-141 and 283-286: id INTEGER PRIMARY KEY AUTOINCREMENT gives one
\* more than the largest id the table ever held; RETURNING * gives the row.
Sql_create_todo(s, todo, t) ==
    LET row == [id |-> s.seq + 1, title |-> todo.title,
                description |-> todo.description,
                completed |-> ToInteger(todo.completed),
                created_at |-> t, updated_at |-> t]
    IN Response([rows |-> s.rows \cup {row}, seq |-> s.seq + 1], 201, "",
                <<row_to_dict(row)>>)

\* lines 163-188: the SET clauses of the UPDATE.
SetClauses(row, data, t) ==
    [f \in DOMAIN row |->
        IF f = "updated_at" THEN t
        ELSE IF f = "completed" /\ f \in DOMAIN data THEN ToInteger(data[f])
        ELSE IF f \in DOMAIN data THEN data[f] ELSE row[f]]

\* lines 143-193 and 288-294: not found when the SELECT finds no row; no
\* UPDATE at all when the body gives no field.
Sql_update_todo(s, id, upd, t) ==
    IF Sql_get_todo_by_id(s, id) = <<>> THEN NotFound(s)
    ELSE IF DOMAIN model_dump(upd) = {}
    THEN Response(s, 200, "", Sql_get_todo_by_id(s, id))
    ELSE LET s2 == [rows |-> {IF r.id = id
                              THEN SetClauses(r, model_dump(upd), t)
                              ELSE r : r \in s.rows},
                    seq |-> s.seq]
         IN Response(s2, 200, "", Sql_get_todo_by_id(s2, id))

\* Faulty variant: the DELETE is executed without looking the row up.
Sql_delete_todo_unchecked(s, id) ==
    Response([rows |-> {r \in s.rows : r.id # id}, seq |-> s.seq],
             204, "", <<>>)

\* lines 195-210 and 296-302.
Sql_delete_todo(s, id) ==
    IF \A r \in s.rows : r.id # id THEN NotFound(s)
    ELSE Response([rows |-> {r \in s.rows : r.id # id}, seq |-> s.seq],
                  204, "", <<>>)

\* lines 212-219 and 304-308: the rows go, the AUTOINCREMENT counter stays.
Sql_delete_all_todos(s) ==
    Response([rows |-> {}, seq |-> s.seq], 204, "", <<>>)

\* --------------------------------------------------- main_sqlmodel.py
\* lines 103-111 and 277-284.
Orm_get_all_todos(s) == Response(s, 200, "", ById(s))

\* lines 114-116 and 287-293.
Orm_get_todo(s, id) ==
    IF \A r \in s : r.id # id THEN NotFound(s)
    ELSE Response(s, 200, "", ById({r \in s : r.id = id}))

\* lines 52 and 119-135: id is an INTEGER PRIMARY KEY without AUTOINCREMENT,
\* so the new row gets one more than the largest id now in the table.
Orm_create_todo(s, todo, t) ==
    LET row == [id |-> IF s = {} THEN 1 ELSE Max({r.id : r \in s}) + 1,
                title |-> todo.title, description |-> todo.description,
                completed |-> todo.completed,
                created_at |-> t, updated_at |-> t]
    IN Response(s \cup {row}, 201, "", <<row>>)

\* lines 138-158.
Orm_update_todo(s, id, upd, t) ==
    IF \A r \in s : r.id # id THEN NotFound(s)
    ELSE LET s2 == {IF r.id = id THEN Assigned(r, model_dump(upd), t)
                    ELSE r : r \in s}
         IN Response(s2, 200, "", ById({r \in s2 : r.id = id}))

\* lines 161-169.
Orm_delete_todo(s, id) ==
    IF \A r \in s : r.id # id THEN NotFound(s)
    ELSE Response({r \in s : r.id # id}, 204, "", <<>>)

\* lines 172-180.
Orm_delete_all_todos(s) == Response({}, 204, "", <<>>)

\* ------------------------------------------ the same request to each server
\* What a server keeps of the request it handled: the operation, the id in
\* the path, the fields the body gave, the time of handling, the response.
Handled(op, id, given, r, t) ==
    [op |-> op, id |-> id, given |-> given, status |-> r.status,
     detail |-> r.detail, todos |-> r.todos, count |-> r.count, at |-> t]

\* The three servers have answered the same request with j, s and o.
Served(op, id, given, j, s, o, t) ==
    /\ todos_file' = j.store
    /\ todos_db' = s.store
    /\ todos_orm' = o.store
    /\ reply' = [json |-> Handled(op, id, given, j, t),
                 sqlite |-> Handled(op, id, given, s, t),
                 orm |-> Handled(op, id, given, o, t)]
    /\ UNCHANGED <<uploads, sessionVars, carVars, raceVars>>

\* GET /todos
ListTodos ==
    /\ now' = now
    /\ Served("list", 0, {}, Json_get_all_todos(todos_file),
              Sql_get_all_todos(todos_db), Orm_get_all_todos(todos_orm), now)

\* GET /todos/{id}
GetTodo(id) ==
    /\ now' = now
    /\ Served("get", id, {}, Json_get_todo(todos_file, id),
              Sql_get_todo(todos_db, id), Orm_get_todo(todos_orm, id), now)

\* POST /todos with no id in the body
CreateTodo(todo) ==
    /\ now < MaxClock
    /\ now' = now + 1
    /\ Served("create", 0, Fields,
              Json_create_todo(todos_file, todo, NoId, now + 1),
              Sql_create_todo(todos_db, todo, now + 1),
              Orm_create_todo(todos_orm, todo, now + 1), now + 1)

\* PUT /todos/{id}
UpdateTodo(id, upd) ==
    /\ now < MaxClock
    /\ now' = now + 1
    /\ Served("update", id, upd.set,
              Json_update_todo(todos_file, id, upd, now + 1),
              Sql_update_todo(todos_db, id, upd, now + 1),
              Orm_update_todo(todos_orm, id, upd, now + 1), now + 1)

\* DELETE /todos/{id}
DeleteTodo(id) ==
    /\ now' = now
    /\ Served("delete", id, {}, Json_delete_todo(todos_file, id),
              Sql_delete_todo(todos_db, id), Orm_delete_todo(todos_orm, id),
              now)

\* DELETE /todos
DeleteAllTodos ==
    /\ now' = now
    /\ Served("delete_all", 0, {}, Json_delete_all_todos(todos_file),
              Sql_delete_all_todos(todos_db),
              Orm_delete_all_todos(todos_orm), now)

TodoNext ==
    \/ \E todo \in TodoBodies : CreateTodo(todo)
    \/ \E id \in TodoRange : DeleteTodo(id)
    \/ \E id \in TodoRange, upd \in TodoUpdates : UpdateTodo(id, upd)
    \/ \E id \in TodoRange : GetTodo(id)
    \/ ListTodos
    \/ DeleteAllTodos

TodoSpec == Init /\ [][TodoNext]_vars

\* ---------------------------------------------------- vocabulary of claims
\* What a server stores; its todos, as the dicts a response carries; their
\* ids in the order of the store (file order, rowid order).
Store(v) ==
    CASE v = "json" -> todos_file
      [] v = "sqlite" -> todos_db
      [] OTHER -> todos_orm
Stored(v) ==
    CASE v = "json" -> {todos_file.todos[k] : k \in DOMAIN read_todos(todos_file)}
      [] v = "sqlite" -> {row_to_dict(r) : r \in todos_db.rows}
      [] OTHER -> todos_orm
Ids(v) == {d.id : d \in Stored(v)}
FileOrder == [k \in DOMAIN read_todos(todos_file) |-> todos_file.todos[k].id]

\* A response without its timestamps.
View(d) ==
    [id |-> d.id, title |-> d.title, description |-> d.description,
     completed |-> d.completed]
Answer(v) ==
    <<reply[v].status, [k \in DOMAIN reply[v].todos |-> View(reply[v].todos[k])]>>

\* C14 as stated: to every request of a sequence that starts on empty stores
\* the three servers give the same status and the same todo ids, titles,
\* descriptions and completed flags.
C14_SameAnswers ==
    /\ Answer("json") = Answer("sqlite")
    /\ Answer("json") = Answer("orm")

\* C17: a successful update leaves the number and order of the stored todos,
\* every other todo, and of the updated todo the id, created_at and every
\* field the body did not give, as they were, in each of the three servers.
C17_UpdateFrame ==
    [][\A v \in Variants :
         (reply'[v].op = "update" /\ reply'[v].status = 200) =>
            LET kept == {"id", "title", "description", "completed",
                         "created_at"} \ reply'[v].given
            IN /\ FileOrder' = FileOrder
               /\ Ids(v)' = Ids(v)
               /\ Cardinality(Stored(v)') = Cardinality(Stored(v))
               /\ \A d \in Stored(v) :
                     IF d.id # reply'[v].id THEN d \in Stored(v)'
                     ELSE \E n \in Stored(v)' :
                             \A f \in kept : n[f] = d[f]
      ]_vars

\* The three servers have updated the completed flag alone of the second of
\* two todos, whose title and created_at are as they were set before; the
\* first todo is as created.
C17_Witness ==
    \A v \in Variants :
        /\ reply[v].op = "update" /\ reply[v].status = 200
        /\ reply[v].given = {"completed"} /\ reply[v].id = 2
        /\ Ids(v) = {1, 2}
        /\ \E d \in Stored(v) : d.id = 1 /\ d.updated_at = 1
        /\ \E d \in Stored(v) :
              /\ d.id = 2 /\ d.completed /\ d.title = "b"
              /\ d.created_at = 2 /\ d.updated_at = 3

\* C18 as stated: after a successful update the todo's updated_at is the time
\* of the update, whatever the body gave, in each of the three servers.
C18_UpdateRefreshes ==
    \A v \in Variants :
        (reply[v].op = "update" /\ reply[v].status = 200) =>
            \A d \in Stored(v) :
                d.id = reply[v].id => d.updated_at = reply[v].at

\* C19: in each of the three servers a get, update or delete of an id that is
\* not stored is answered 404 'Todo not found' and leaves the storage as it
\* was; a delete of a stored id is answered 204, removes that todo and no
\* other, and the id is not stored afterwards (so that a second delete of it
\* is answered 404).
C19_NotFound ==
    [][\A v \in Variants :
         LET a == reply'[v] IN
         /\ (a.op \in {"get", "update", "delete"} /\ a.id \notin Ids(v)) =>
               /\ a.status = 404 /\ a.detail = "Todo not found"
               /\ Store(v)' = Store(v)
         /\ (a.op = "delete" /\ a.id \in Ids(v)) =>
               /\ a.status = 204
               /\ Stored(v)' = {d \in Stored(v) : d.id # a.id}
               /\ FileOrder' = SelectSeq(FileOrder, LAMBDA i : i # a.id)
      ]_vars

\* The second delete of todo 1 has been answered 404 by the three servers,
\* which still store todo 2.
C19_Witness ==
    \A v \in Variants :
        /\ reply[v].op = "delete" /\ reply[v].id = 1
        /\ reply[v].status = 404 /\ reply[v].detail = "Todo not found"
        /\ Ids(v) = {2}

\* ==================================================================
\* POST /todos/upload-csv of the raw-SQL and the ORM server
\* (import_csv_to_db), between creates.
\* ==================================================================
MaxRows == 2     \* data rows of an uploaded CSV file
MaxUploads == 1  \* CSV files uploaded in one behaviour

\* The rows csv.DictReader yields for a file with the header
\* title,description,completed.  A short line leaves the missing columns at
\* None.
CsvRows ==
    {[title |-> " b ", description |-> "", completed |-> "TRUE"],
     [title |-> " ", description |-> "d", completed |-> "1"],
     [title |-> "", description |-> "d", completed |-> "0"],
     [title |-> "a", description |-> None, completed |-> None]}
RECURSIVE SeqsUpTo(_, _)
SeqsUpTo(S, n) ==
    IF n = 0 THEN {<<>>}
    ELSE SeqsUpTo(S, n - 1)
         \cup {Append(q, x) : q \in {p \in SeqsUpTo(S, n - 1) : Len(p) = n - 1},
                              x \in S}
\* An upload: its rows, or bytes that are not UTF-8.
Uploads ==
    [utf8 : {TRUE}, rows : SeqsUpTo(CsvRows, MaxRows)]
    \cup {[utf8 |-> FALSE, rows |-> <<>>]}
\* The storage call of an import that raises (database locked, disk full):
\* none, the first or the second.
StorageFaults == 0..2

\* str.strip() and str.lower() on the texts above.
Strip(s) == CASE s = " b " -> "b" [] s = " " -> "" [] OTHER -> s
Lower(s) == CASE s = "TRUE" -> "true" [] OTHER -> s
\* lines 241 / 200: the completed column.
Truthy(s) == Lower(Strip(s)) \in {"1", "true", "yes"}
\* lines 240 / 199: '' or None becomes None.
OrNone(s) == IF s = "" THEN None ELSE s

\* The import so far: the table as the transaction sees it, the todos added
\* to the ORM session, the rows counted, the storage calls made, and the
\* failure raised, if any.
Importing(view, pending, count, calls, raised) ==
    [view |-> view, pending |-> pending, count |-> count, calls |-> calls,
     raised |-> raised]

\* lines 235-247 of main_sqlite.py from row k on; the storage call number
\* fail_at (0: none) raises.
RECURSIVE Sql_import_rows(_, _, _, _, _)
Sql_import_rows(tx, rows, k, t, fail_at) ==
    IF k > Len(rows) \/ tx.raised # "none" THEN tx
    ELSE IF rows[k].title = None
    THEN [tx EXCEPT !.raised = "AttributeError"]
    ELSE IF Strip(rows[k].title) = ""
    THEN Sql_import_rows(tx, rows, k + 1, t, fail_at)
    ELSE IF rows[k].description = None
    THEN [tx EXCEPT !.raised = "AttributeError"]
    ELSE IF tx.calls + 1 = fail_at
    THEN [tx EXCEPT !.raised = "OperationalError", !.calls = @ + 1]
    ELSE Sql_import_rows(
            Importing([rows |-> tx.view.rows \cup
                          {[id |-> tx.view.seq + 1,
                            title |-> Strip(rows[k].title),
                            description |-> OrNone(Strip(rows[k].description)),
                            completed |-> ToInteger(Truthy(rows[k].completed)),
                            created_at |-> t, updated_at |-> t]},
                       seq |-> tx.view.seq + 1],
                      <<>>, tx.count + 1, tx.calls + 1, "none"),
            rows, k + 1, t, fail_at)

\* Faulty variant: what the failed import had inserted is committed.
Sql_rollback_partial(s, tx) == tx.view

\* lines 256-258: conn.rollback() and the 400.
Sql_rollback(s, tx) == s

\* What import_csv_to_db answers: imported_count on success, 400 on failure.
Imported(store, count) ==
    [store |-> store, status |-> 200, detail |-> "", todos |-> <<>>,
     count |-> count]
ImportFailed(store) ==
    [store |-> store, status |-> 400, detail |-> "Error importing CSV",
     todos |-> <<>>, count |-> 0]

\* lines 221-260 of main_sqlite.py.
Sql_import_csv_to_db(s, csv, t, fail_at) ==
    LET start == Importing(s, <<>>, 0, 0,
                           IF csv.utf8 THEN "none" ELSE "UnicodeDecodeError")
        tx == Sql_import_rows(start, csv.rows, 1, t, fail_at)
    IN IF tx.raised # "none" THEN ImportFailed(Sql_rollback(s, tx))
       ELSE IF tx.calls + 1 = fail_at THEN ImportFailed(Sql_rollback(s, tx))
       ELSE Imported(tx.view, tx.count)

\* lines 194-212 of main_sqlmodel.py from row k on: the todos are added to
\* the session, nothing is sent to the storage.
RECURSIVE Orm_import_rows(_, _, _, _)
Orm_import_rows(tx, rows, k, t) ==
    IF k > Len(rows) \/ tx.raised # "none" THEN tx
    ELSE IF rows[k].title = None
    THEN [tx EXCEPT !.raised = "AttributeError"]
    ELSE IF Strip(rows[k].title) = ""
    THEN Orm_import_rows(tx, rows, k + 1, t)
    ELSE IF rows[k].description = None
    THEN [tx EXCEPT !.raised = "AttributeError"]
    ELSE Orm_import_rows(
            Importing(tx.view,
                      Append(tx.pending,
                             [title |-> Strip(rows[k].title),
                              description |-> OrNone(Strip(rows[k].description)),
                              completed |-> Truthy(rows[k].completed),
                              created_at |-> t, updated_at |-> t]),
                      tx.count + 1, 0, "none"),
            rows, k + 1, t)

\* session.commit(), line 214: the pending todos are inserted in the order
\* they were added, each with the next rowid.
RECURSIVE Orm_flush(_, _)
Orm_flush(s, pending) ==
    IF pending = <<>> THEN s
    ELSE LET d == Head(pending) IN
         Orm_flush(s \cup {[id |-> IF s = {} THEN 1
                                    ELSE Max({r.id : r \in s}) + 1,
                            title |-> d.title, description |-> d.description,
                            completed |-> d.completed,
                            created_at |-> d.created_at,
                            updated_at |-> d.updated_at]},
                   Tail(pending))

\* lines 183-223 of main_sqlmodel.py; a storage call that raises does so
\* within the commit, and session.rollback() undoes the flush.
Orm_import_csv_to_db(s, csv, t, fail_at) ==
    LET start == Importing(s, <<>>, 0, 0,
                           IF csv.utf8 THEN "none" ELSE "UnicodeDecodeError")
        tx == Orm_import_rows(start, csv.rows, 1, t)
    IN IF tx.raised # "none" THEN ImportFailed(s)
       ELSE IF fail_at \in 1..(tx.count + 1) THEN ImportFailed(s)
       ELSE Imported(Orm_flush(s, tx.pending), tx.count)

\* POST /todos {title: 'a'} on both servers.
CreateInBoth(todo) ==
    /\ now < MaxClock
    /\ now' = now + 1
    /\ todos_db' = Sql_create_todo(todos_db, todo, now + 1).store
    /\ todos_orm' = Orm_create_todo(todos_orm, todo, now + 1).store
    /\ reply' = [reply EXCEPT
                   !.sqlite = Handled("create", 0, Fields,
                                      Sql_create_todo(todos_db, todo, now + 1),
                                      now + 1),
                   !.orm = Handled("create", 0, Fields,
                                   Orm_create_todo(todos_orm, todo, now + 1),
                                   now + 1)]
    /\ UNCHANGED <<todos_file, uploads, sessionVars, carVars, raceVars>>

\* POST /todos/upload-csv on both servers, with a file named *.csv.
UploadCsv(csv, fail_at) ==
    /\ csv.utf8 \/ fail_at = 0
    /\ now < MaxClock
    /\ uploads < MaxUploads
    /\ now' = now + 1
    /\ uploads' = uploads + 1
    /\ todos_db' = Sql_import_csv_to_db(todos_db, csv, now + 1, fail_at).store
    /\ todos_orm' = Orm_import_csv_to_db(todos_orm, csv, now + 1, fail_at).store
    /\ reply' = [reply EXCEPT
                   !.sqlite = Handled("import", 0, csv.rows,
                                      Sql_import_csv_to_db(todos_db, csv,
                                                           now + 1, fail_at),
                                      now + 1),
                   !.orm = Handled("import", 0, csv.rows,
                                   Orm_import_csv_to_db(todos_orm, csv,
                                                        now + 1, fail_at),
                                   now + 1)]
    /\ UNCHANGED <<todos_file, sessionVars, carVars, raceVars>>

ImportNext ==
    \/ \E todo \in {t \in TodoBodies : t.title = "a"} : CreateInBoth(todo)
    \/ \E csv \in Uploads, fail_at \in StorageFaults : UploadCsv(csv, fail_at)

ImportSpec == Init /\ [][ImportNext]_vars

\* The todos an import added, in rowid order.
Added(v) == ById(Stored(v)' \ Stored(v))

JsonServed(op, id, given, j, t) ==
    /\ todos_file' = j.store
    /\ reply' = [reply EXCEPT !.json = Handled(op, id, given, j, t)]
    /\ UNCHANGED <<todos_db, todos_orm, uploads, sessionVars, carVars,
                   raceVars>>

\* POST /todos; id = NoId when the body gives none.
JsonCreate(todo, id) ==
    /\ now < MaxClock
    /\ now' = now + 1
    /\ JsonServed("create", id, Fields,
                  Json_create_todo(todos_file, todo, id, now + 1), now + 1)

\* PUT /todos/{id}
JsonUpdate(id, upd) ==
    /\ now < MaxClock
    /\ now' = now + 1
    /\ JsonServed("update", id, upd.set,
                  Json_update_todo(todos_file, id, upd, now + 1), now + 1)

\* DELETE /todos/{id}
JsonDelete(id) ==
    /\ now' = now
    /\ JsonServed("delete", id, {}, Json_delete_todo(todos_file, id), now)

\* DELETE /todos
JsonDeleteAll ==
    /\ now' = now
    /\ JsonServed("delete_all", 0, {}, Json_delete_all_todos(todos_file), now)

JsonNext ==
    \/ \E todo \in TodoBodies, id \in {NoId} \cup TodoRange :
          JsonCreate(todo, id)
    \/ \E id \in TodoRange, upd \in TodoUpdates : JsonUpdate(id, upd)
    \/ \E id \in TodoRange : JsonDelete(id)
    \/ JsonDeleteAll

JsonSpec == Init /\ [][JsonNext]_vars

\* C16: in the JSON-file server no two stored todos have the same id after
\* any request; a create without an id is answered 201 and its todo gets an
\* id greater than every id stored before; a create whose id is already
\* stored is answered 400 and leaves the file as it was.
C16_UniqueIds ==
    [][LET a == reply'.json
           before == read_todos(todos_file)
           after == read_todos(todos_file')
       IN /\ \A j, k \in DOMAIN after : after[j].id = after[k].id => j = k
          /\ (a.op = "create" /\ a.id = NoId) =>
                /\ a.status = 201
                /\ \A k \in DOMAIN before : a.todos[1].id > before[k].id
                /\ after = Append(before, a.todos[1])
          /\ (a.op = "create" /\ a.id \in Ids("json")) =>
                /\ a.status = 400
                /\ todos_file' = todos_file
      ]_vars

\* A create that gave the id of a stored todo has been answered 400, the
\* file holding a todo with an id of its own choice and one with the id the
\* server assigned after it.
C16_Witness ==
    /\ reply.json.op = "create" /\ reply.json.status = 400
    /\ reply.json.id = 2
    /\ FileOrder = <<2, 3>>

\* ==================================================================
\* create_todo of the JSON-file server handled for several clients at once:
\* the endpoint is a plain def, which FastAPI runs in a thread per request,
\* and nothing locks todos.json.
\* ==================================================================
\* The todo request r posts: a title of its own, no id.
Posted(r) == [title |-> ToString(r), description |-> None, completed |-> FALSE]

\* lines 92-108: the request reads the file and appends its todo, under the
\* next id, to the list it read.
ReadTodos(r) ==
    /\ reqs[r].pc = "idle"
    /\ LET made == Json_create_todo(todos_file, Posted(r), NoId, now).store
       IN reqs' = [reqs EXCEPT ![r] = [pc |-> "write", todos |-> made.todos,
                                       id |-> made.todos[Len(made.todos)].id]]
    /\ UNCHANGED <<todos_file, todos_db, todos_orm, now, reply, uploads,
                   sessionVars, carVars>>

\* line 47: open(TODOS_FILE, 'w') empties the file.
OpenFile(r) ==
    /\ reqs[r].pc = "write"
    /\ todos_file' = NoFile
    /\ reqs' = [reqs EXCEPT ![r].pc = "dump"]
    /\ UNCHANGED <<todos_db, todos_orm, now, reply, uploads, sessionVars,
                   carVars>>

\* lines 48 and 111: json.dump writes the request's list from the start of
\* the file, which then holds it, and 201 is answered.
Dump(r) ==
    /\ reqs[r].pc = "dump"
    /\ todos_file' = write_todos(reqs[r].todos)
    /\ reqs' = [reqs EXCEPT ![r].pc = "done"]
    /\ UNCHANGED <<todos_db, todos_orm, now, reply, uploads, sessionVars,
                   carVars>>

\* The same when another request has written the file since this one
\* emptied it, and this one's bytes are fewer: the rest of the other's bytes
\* follows them, and the file is not valid JSON.
DumpShorter(r) ==
    /\ reqs[r].pc = "dump"
    /\ todos_file.valid
    /\ todos_file' = NoFile
    /\ reqs' = [reqs EXCEPT ![r].pc = "done"]
    /\ UNCHANGED <<todos_db, todos_orm, now, reply, uploads, sessionVars,
                   carVars>>

RaceNext ==
    \/ \E r \in Reqs : ReadTodos(r)
    \/ \E r \in Reqs : OpenFile(r)
    \/ \E r \in Reqs : Dump(r)
    \/ \E r \in Reqs : DumpShorter(r)

RaceSpec == Init /\ [][RaceNext]_vars

\* C20 as stated: once no create_todo request is in flight, the todo of every
\* request answered 201 is in the file under the id the request gave it, and
\* no two todos in the file have the same id.
C20_NoLostCreate ==
    (\A r \in Reqs : reqs[r].pc \in {"idle", "done"}) =>
        LET todos == read_todos(todos_file) IN
        /\ \A r \in Reqs : reqs[r].pc = "done" =>
              \E k \in DOMAIN todos :
                  todos[k].id = reqs[r].id /\ todos[k].title = Posted(r).title
        /\ \A j, k \in DOMAIN todos : todos[j].id = todos[k].id => j = k

====
